---- MODULE Spec2Model ----
(***************************************************************************)
(* Model of package goptional (src/goptional.go): the generic container    *)
(* Optional[T] and its combinators.                                        *)
(*                                                                         *)
(* Every *Optional[T] the program creates is a cell of `heap`, addressed   *)
(* by its index; the nil pointer is address NIL.  A behaviour is a caller  *)
(* that keeps every pointer it was ever given and calls one exported       *)
(* function or method per step.  `pre` is the heap just before the last    *)
(* call and `ret` records that call: its arguments, what it returned or    *)
(* panicked with, and how often each callback was invoked.                 *)
(***************************************************************************)
EXTENDS Integers, Sequences, FiniteSets, TLC

\* ------------------------------------------------------------------ bounds
\* Largest number of Optional instances a behaviour allocates.
MaxObjs == 3
\* Largest number of those that are nested (hold pointers to Optionals or
\* Pairs).
MaxNested == 1

\* ------------------------------------------------------------------ values
\* The nil *Optional[T].
NIL == 0

\* Kinds of T whose zero value is not a nil reference.
ValueKinds == {"int", "string", "bool", "struct", "array"}
\* Kinds of T whose zero value is nil.
RefKinds == {"ptr", "slice", "map", "chan", "func"}
\* Every kind of type parameter T of the model; "iface" is interface{}.
Kinds == ValueKinds \cup RefKinds \cup {"iface"}

\* Payload contents.  For "int" the number itself (0, and the 123 and 124
\* of the examples: one odd, one even, both above 100); for the other kinds
\* an identifier of the content (0 is the zero content: "", false, the zero
\* struct, the empty but non-nil slice or map, a pointer to a zero value).
IntData == {0, 123, 124}
Data == {0, 1}
DataOf(k) == IF k = "int" THEN IntData ELSE Data

\* A Go value of static kind `kind`: `dyn` is the kind reflect.ValueOf sees
\* (the dynamic type for an interface, "none" for the nil interface), isNil
\* says that the value is the nil of its (dynamic) type, d is its content
\* (for a *Optional[T], the address) and parts the two fields of a *Pair.
V(k, dy, n, x) == [kind |-> k, dyn |-> dy, isNil |-> n, d |-> x, parts |-> <<>>]

\* A *Optional[T]: the pointer p as a payload.
OptPtr(p) == V("optptr", "ptr", p = NIL, p)

\* type Pair[X, Y any] struct { First X; Second Y }, as the payload &Pair{a, b}
\* of kind K: "pairTT" is *Pair[T, T], "pairOO" is
\* *Pair[*Optional[T], *Optional[T]].
PairPtr(K, a, b) == [V(K, "ptr", FALSE, 0) EXCEPT !.parts = <<a, b>>]

\* Kinds of the nested instances, and the kinds of T they are built over.
NestKinds == {"optptr", "pairTT", "pairOO"}
NestedOver == {"string"}

\* The values of kind k.  An interface{} is nil, or holds the int 0, a nil
\* *int or a *int to 1.
ValuesOf(k) ==
  IF k \in ValueKinds THEN {V(k, k, FALSE, x) : x \in DataOf(k)}
  ELSE IF k \in RefKinds THEN {V(k, k, TRUE, 0)} \cup {V(k, k, FALSE, x) : x \in Data}
  ELSE {V("iface", "none", TRUE, 0), V("iface", "int", FALSE, 0),
        V("iface", "ptr", TRUE, 0), V("iface", "ptr", FALSE, 1)}

\* What a call that returns no value of type T leaves in ret.val.
NoVal == V("none", "none", TRUE, 0)

\* func getZeroOfType[T any]() T
getZeroOfType(K) ==
  IF K \in ValueKinds THEN V(K, K, FALSE, 0)
  ELSE IF K = "iface" THEN V("iface", "none", TRUE, 0)
  ELSE IF K \in NestKinds THEN V(K, "ptr", TRUE, 0)
  ELSE V(K, K, TRUE, 0)

\* The kinds of the case clause of isValueValid.
NilCheckedKinds == {"ptr", "iface", "slice", "map", "chan", "func"}

\* Mutant: the case clause lacks reflect.Slice.
isValueValid_NoSlice(value) ==
  IF value.dyn = "none" THEN FALSE
  ELSE IF value.dyn \in (NilCheckedKinds \ {"slice"}) /\ value.isNil THEN FALSE
  ELSE TRUE

\* func isValueValid[T any](value T) bool
isValueValid(value) ==
  IF value.dyn = "none" THEN FALSE
  ELSE IF value.dyn \in NilCheckedKinds /\ value.isNil THEN FALSE
  ELSE TRUE

\* reflect.DeepEqual on two payloads of the same T: functions are equal only
\* when both are nil, everything else by content (pointers by pointee).
DeepEqual(a, b) ==
  IF a.dyn = "func" /\ b.dyn = "func" THEN a.isNil /\ b.isNil
  ELSE a = b

\* ------------------------------------------------------------------ state
\* thr holds the goroutines that call Take on one instance at the same
\* time; there is none in a behaviour of a single caller.
VARIABLES T, heap, pre, ret, thr
vars == <<T, heap, pre, ret, thr>>

\* type Optional[T any] struct { value T; isValueValid bool }
Cell(v, ok) == [value |-> v, isValueValid |-> ok]

\* Addresses of the allocated instances of heap h, and the *Optional[K] a
\* caller can pass (nil included): an instance's type is that of its slot.
Addrs(h) == 1..Len(h)
Ptrs(h, K) == {NIL} \cup {a \in Addrs(h) : h[a].value.kind = K}

\* The outcome of a call on heap h: the heap it leaves, the *Optional it
\* returns (opt; opt2 for a second one), the T it returns (val), the bool it
\* returns (b), the bytes or string it returns (text), the error it returns
\* (err), the value it panics with (panic)
\* and the number of invocations of its first and second callback (nf, ng).
Out(h) == [heap |-> h, opt |-> NIL, opt2 |-> NIL, val |-> NoVal, b |-> FALSE,
           text |-> "", err |-> "nil", panic |-> "none", nf |-> 0, ng |-> 0]

\* &Optional[T]{...}: a new instance at the next address.
New(h, cell) == [Out(Append(h, cell)) EXCEPT !.opt = Len(h) + 1]

\* func Empty[T any]() *Optional[T], instantiated at kind K
Empty(h, K) == New(h, Cell(getZeroOfType(K), FALSE))

\* func Of[T any](value T) *Optional[T]
Of(h, value) ==
  IF isValueValid(value) THEN New(h, Cell(value, TRUE)) ELSE Empty(h, value.kind)

\* func (o *Optional[T]) IsPresent() bool
IsPresent(h, o) == o # NIL /\ h[o].isValueValid

\* func (o *Optional[T]) IsEmpty() bool
IsEmpty(h, o) == o = NIL \/ ~h[o].isValueValid

\* Mutant: Unwrap hands out the payload slot without the emptiness check.
Unwrap_NoCheck(h, o) ==
  IF o = NIL THEN [Out(h) EXCEPT !.panic = "nil dereference"]
  ELSE [Out(h) EXCEPT !.val = h[o].value]

\* func (o *Optional[T]) Unwrap() T
Unwrap(h, o) ==
  IF IsEmpty(h, o) THEN [Out(h) EXCEPT !.panic = "ErrNoValue"]
  ELSE [Out(h) EXCEPT !.val = h[o].value]

\* Mutant: unsetValue clears the flag and leaves the payload in the slot.
unsetValue_FlagOnly(h, o) ==
  IF o = NIL THEN h
  ELSE [h EXCEPT ![o] = Cell(h[o].value, FALSE)]

\* func (o *Optional[T]) unsetValue()
unsetValue(h, o) ==
  IF o = NIL THEN h
  ELSE [h EXCEPT ![o] = Cell(getZeroOfType(h[o].value.kind), FALSE)]

\* func (o *Optional[T]) setValue(value T)
setValue(h, o, value) ==
  IF o = NIL THEN h
  ELSE IF isValueValid(value) THEN [h EXCEPT ![o] = Cell(value, TRUE)]
  ELSE unsetValue(h, o)

\* Mutant: Take hands the payload out and leaves it in the receiver.
Take_NoUnset(h, o) ==
  IF IsEmpty(h, o) THEN [Out(h) EXCEPT !.opt = o]
  ELSE Of(h, Unwrap(h, o).val)

\* func (o *Optional[T]) Take() *Optional[T]
Take(h, o) ==
  IF IsEmpty(h, o) THEN [Out(h) EXCEPT !.opt = o]
  ELSE LET v == Unwrap(h, o).val
       IN Of(unsetValue(h, o), v)

\* Mutant: Replace on a nil receiver returns an empty Optional and no error.
Replace_NilTolerant(h, o, value) ==
  IF o = NIL THEN Empty(h, value.kind)
  ELSE IF ~h[o].isValueValid THEN Empty(setValue(h, o, value), h[o].value.kind)
  ELSE LET v == Unwrap(h, o).val
       IN Of(setValue(h, o, value), v)

\* Mutant: Replace on an empty receiver returns the receiver's new state.
Replace_ReturnsNew(h, o, value) ==
  IF o = NIL THEN [Out(h) EXCEPT !.err = "ErrMutationOnNil"]
  ELSE IF ~h[o].isValueValid THEN Of(setValue(h, o, value), value)
  ELSE LET v == Unwrap(h, o).val
       IN Of(setValue(h, o, value), v)

\* func (o *Optional[T]) Replace(value T) (*Optional[T], error)
Replace(h, o, value) ==
  IF o = NIL THEN [Out(h) EXCEPT !.err = "ErrMutationOnNil"]
  ELSE IF ~h[o].isValueValid THEN Empty(setValue(h, o, value), h[o].value.kind)
  ELSE LET v == Unwrap(h, o).val
       IN Of(setValue(h, o, value), v)

\* ------------------------------------------------------------------ callbacks
\* The caller's callbacks, by name; "nil" is the nil func.  They are pure:
\* none of them touches an Optional.
\* func(T) bool
Predicates == {"nil", "true", "false", "gt100", "even"}
ApplyPred(p, v) ==
  CASE p = "true" -> TRUE
    [] p = "false" -> FALSE
    [] p = "gt100" -> v.d > 100
    [] p = "even" -> v.d % 2 = 0

\* func(X) Y, with Y = X = T: the identity, the constant zero value of Y (nil
\* for a nilable Y) and a function that changes the content (to another
\* content of the kind).
Mappers == {"nil", "id", "zero", "flip"}
ApplyMap(m, v) ==
  CASE m = "id" -> v
    [] m = "zero" -> getZeroOfType(v.kind)
    [] m = "flip" -> [v EXCEPT !.d = IF v.d # 0 THEN 0
                                     ELSE IF v.dyn = "int" /\ v.kind = "int" THEN 123
                                     ELSE 1]

\* func() T, func() *Optional[T]: nil, or "fn", which returns the value (the
\* pointer) the call record holds in v (in o2).
Suppliers == {"nil", "fn"}

\* func(X) *Optional[Y]: nil, "fn" as for suppliers, and "of", which returns
\* Of(x).
OptMappers == {"nil", "fn", "of"}

\* func() error: nil, one that returns nil and one that returns an error of
\* the caller's.
ErrSuppliers == {"nil", "retNil", "retErr"}
ApplyErr(s) == IF s = "retErr" THEN "callerErr" ELSE "nil"

\* func(v1, v2 T) bool
Predicates2 == {"nil", "true", "false"}

\* func(T), func()
Actions == {"nil", "fn"}

\* ------------------------------------------------------------------ combinators
\* func (o *Optional[T]) IfPresent(action func(T))
IfPresent(h, o, action) ==
  IF IsPresent(h, o) /\ action # "nil" THEN [Out(h) EXCEPT !.nf = 1] ELSE Out(h)

\* Mutant: IfPresentOrElse lacks the else: emptyAction runs in any case.
IfPresentOrElse_Both(h, o, action, emptyAction) ==
  LET n == IF IsPresent(h, o) /\ action # "nil" THEN 1 ELSE 0
  IN IF emptyAction # "nil" THEN [Out(h) EXCEPT !.nf = n, !.ng = 1]
     ELSE [Out(h) EXCEPT !.nf = n]

\* func (o *Optional[T]) IfPresentOrElse(action func(T), emptyAction func())
IfPresentOrElse(h, o, action, emptyAction) ==
  IF IsPresent(h, o)
  THEN IF action # "nil" THEN [Out(h) EXCEPT !.nf = 1] ELSE Out(h)
  ELSE IF emptyAction # "nil" THEN [Out(h) EXCEPT !.ng = 1] ELSE Out(h)

\* Mutant: Filter with a nil predicate keeps the receiver.
Filter_NilKeeps(h, o, predicate) ==
  IF IsEmpty(h, o) \/ predicate = "nil" THEN [Out(h) EXCEPT !.opt = o]
  ELSE IF ApplyPred(predicate, Unwrap(h, o).val)
       THEN [Out(h) EXCEPT !.opt = o, !.nf = 1]
       ELSE [Empty(h, T) EXCEPT !.nf = 1]

\* Mutant: Filter unsets the receiver when the predicate fails.
Filter_InPlace(h, o, predicate) ==
  IF IsEmpty(h, o) THEN [Out(h) EXCEPT !.opt = o]
  ELSE IF predicate = "nil" THEN Empty(h, T)
  ELSE IF ApplyPred(predicate, Unwrap(h, o).val)
       THEN [Out(h) EXCEPT !.opt = o, !.nf = 1]
       ELSE [Out(unsetValue(h, o)) EXCEPT !.opt = o, !.nf = 1]

\* Mutant: Filter returns a copy of the receiver it keeps.
Filter_Copy(h, o, predicate) ==
  IF IsEmpty(h, o) THEN [Out(h) EXCEPT !.opt = o]
  ELSE IF predicate = "nil" THEN Empty(h, T)
  ELSE IF ApplyPred(predicate, Unwrap(h, o).val)
       THEN [Of(h, Unwrap(h, o).val) EXCEPT !.nf = 1]
       ELSE [Empty(h, T) EXCEPT !.nf = 1]

\* Mutant: Filter keeps what the predicate rejects.
Filter_Negated(h, o, predicate) ==
  IF IsEmpty(h, o) THEN [Out(h) EXCEPT !.opt = o]
  ELSE IF predicate = "nil" THEN Empty(h, T)
  ELSE IF ~ApplyPred(predicate, Unwrap(h, o).val)
       THEN [Out(h) EXCEPT !.opt = o, !.nf = 1]
       ELSE [Empty(h, T) EXCEPT !.nf = 1]

\* func (o *Optional[T]) Filter(predicate func(T) bool) *Optional[T]
Filter(h, o, predicate) ==
  IF IsEmpty(h, o) THEN [Out(h) EXCEPT !.opt = o]
  ELSE IF predicate = "nil" THEN Empty(h, T)
  ELSE IF ApplyPred(predicate, Unwrap(h, o).val)
       THEN [Out(h) EXCEPT !.opt = o, !.nf = 1]
       ELSE [Empty(h, T) EXCEPT !.nf = 1]

\* Mutant: Map wraps the mapper's result without the validity check.
Map_NoCheck(h, input, mapper) ==
  IF IsEmpty(h, input) \/ mapper = "nil" THEN Empty(h, T)
  ELSE [New(h, Cell(ApplyMap(mapper, Unwrap(h, input).val), TRUE)) EXCEPT !.nf = 1]

\* func Map[X, Y any](input *Optional[X], mapper func(X) Y) *Optional[Y]
Map(h, input, mapper) ==
  IF IsEmpty(h, input) \/ mapper = "nil" THEN Empty(h, T)
  ELSE [Of(h, ApplyMap(mapper, Unwrap(h, input).val)) EXCEPT !.nf = 1]

\* func MapOr[X, Y any](input *Optional[X], mapper func(X) Y, other Y) *Optional[Y]
MapOr(h, input, mapper, other) ==
  IF IsEmpty(h, input) THEN Of(h, other)
  ELSE IF mapper = "nil" THEN Empty(h, T)
  ELSE [Of(h, ApplyMap(mapper, Unwrap(h, input).val)) EXCEPT !.nf = 1]

\* func MapOrElse[X, Y any](input *Optional[X], mapper func(X) Y, supplier func() Y) *Optional[Y]
\* (supplied is what supplier returns)
MapOrElse(h, input, mapper, supplier, supplied) ==
  IF IsEmpty(h, input)
  THEN IF supplier # "nil" THEN [Of(h, supplied) EXCEPT !.ng = 1] ELSE Empty(h, T)
  ELSE IF mapper = "nil" THEN Empty(h, T)
  ELSE [Of(h, ApplyMap(mapper, Unwrap(h, input).val)) EXCEPT !.nf = 1]

\* Mutant: FlatMap has its emptiness test the wrong way round.
FlatMap_Negated(h, input, mapper, mapped) ==
  IF IsPresent(h, input) \/ mapper = "nil" THEN Empty(h, T)
  ELSE [Out(h) EXCEPT !.panic = "ErrNoValue"]

\* Mutant: FlatMap wraps the payload of what the mapper returns anew.
FlatMap_Rewrap(h, input, mapper, mapped) ==
  IF IsEmpty(h, input) \/ mapper = "nil" THEN Empty(h, T)
  ELSE IF mapper = "of" THEN [Of(h, Unwrap(h, input).val) EXCEPT !.nf = 1]
  ELSE IF IsEmpty(h, mapped) THEN [Empty(h, T) EXCEPT !.nf = 1]
  ELSE [Of(h, Unwrap(h, mapped).val) EXCEPT !.nf = 1]

\* func FlatMap[X, Y any](input *Optional[X], mapper func(X) *Optional[Y]) *Optional[Y]
\* (mapped is the pointer the mapper "fn" returns)
FlatMap(h, input, mapper, mapped) ==
  IF IsEmpty(h, input) \/ mapper = "nil" THEN Empty(h, T)
  ELSE IF mapper = "of" THEN [Of(h, Unwrap(h, input).val) EXCEPT !.nf = 1]
  ELSE [Out(h) EXCEPT !.opt = mapped, !.nf = 1]

\* Mutant: And asks the supplier before it looks at the receiver.
And_Eager(h, o, supplier, supplied) ==
  IF supplier = "nil" THEN IF IsEmpty(h, o) THEN [Out(h) EXCEPT !.opt = o] ELSE Empty(h, T)
  ELSE IF IsEmpty(h, o) THEN [Out(h) EXCEPT !.opt = o, !.nf = 1]
  ELSE [Out(h) EXCEPT !.opt = supplied, !.nf = 1]

\* func (o *Optional[T]) And(supplier func() *Optional[T]) *Optional[T]
And(h, o, supplier, supplied) ==
  IF IsEmpty(h, o) THEN [Out(h) EXCEPT !.opt = o]
  ELSE IF supplier = "nil" THEN Empty(h, T)
  ELSE [Out(h) EXCEPT !.opt = supplied, !.nf = 1]

\* Mutant: Or calls its supplier without the nil test.
Or_CallsNil(h, o, supplier, supplied) ==
  IF IsPresent(h, o) THEN [Out(h) EXCEPT !.opt = o]
  ELSE IF supplier = "nil" THEN [Out(h) EXCEPT !.panic = "nil dereference"]
  ELSE [Out(h) EXCEPT !.opt = supplied, !.nf = 1]

\* func (o *Optional[T]) Or(supplier func() *Optional[T]) *Optional[T]
Or(h, o, supplier, supplied) ==
  IF IsPresent(h, o) \/ supplier = "nil" THEN [Out(h) EXCEPT !.opt = o]
  ELSE [Out(h) EXCEPT !.opt = supplied, !.nf = 1]

\* Mutant: Xor reads the presence flag of o2 without the nil test.
Xor_DerefArg(h, o, o2) ==
  IF o2 = NIL THEN [Out(h) EXCEPT !.panic = "nil dereference"]
  ELSE IF (IsPresent(h, o) /\ IsPresent(h, o2)) \/ (IsEmpty(h, o) /\ IsEmpty(h, o2))
  THEN Empty(h, T)
  ELSE IF IsPresent(h, o) THEN [Out(h) EXCEPT !.opt = o]
  ELSE [Out(h) EXCEPT !.opt = o2]

\* Mutant: Xor returns the first present one, also when both are present.
Xor_FirstPresent(h, o, o2) ==
  IF IsEmpty(h, o) /\ IsEmpty(h, o2) THEN Empty(h, T)
  ELSE IF IsPresent(h, o) THEN [Out(h) EXCEPT !.opt = o]
  ELSE [Out(h) EXCEPT !.opt = o2]

\* func (o *Optional[T]) Xor(o2 *Optional[T]) *Optional[T]
Xor(h, o, o2) ==
  IF (IsPresent(h, o) /\ IsPresent(h, o2)) \/ (IsEmpty(h, o) /\ IsEmpty(h, o2))
  THEN Empty(h, T)
  ELSE IF IsPresent(h, o) THEN [Out(h) EXCEPT !.opt = o]
  ELSE [Out(h) EXCEPT !.opt = o2]

\* func (o *Optional[T]) OrDefault() T
OrDefault(h, o) ==
  IF IsEmpty(h, o) THEN [Out(h) EXCEPT !.val = getZeroOfType(T)]
  ELSE Unwrap(h, o)

\* func (o *Optional[T]) OrElse(fallback T) T
OrElse(h, o, fallback) ==
  IF IsPresent(h, o) THEN Unwrap(h, o)
  ELSE [Out(h) EXCEPT !.val = fallback]

\* Mutant: OrElseGet asks the supplier before it looks at the receiver.
OrElseGet_Eager(h, o, supplier, supplied) ==
  IF supplier = "nil"
  THEN IF IsPresent(h, o) THEN Unwrap(h, o) ELSE [Out(h) EXCEPT !.val = getZeroOfType(T)]
  ELSE IF IsPresent(h, o) THEN [Unwrap(h, o) EXCEPT !.nf = 1]
  ELSE [Out(h) EXCEPT !.val = supplied, !.nf = 1]

\* func (o *Optional[T]) OrElseGet(supplier func() T) T
OrElseGet(h, o, supplier, supplied) ==
  IF IsPresent(h, o) THEN Unwrap(h, o)
  ELSE IF supplier = "nil" THEN [Out(h) EXCEPT !.val = getZeroOfType(T)]
  ELSE [Out(h) EXCEPT !.val = supplied, !.nf = 1]

\* Mutant: UnwrapOr panics with whatever the supplier returns, nil included.
UnwrapOr_NoFallback(h, o, supplier) ==
  IF IsEmpty(h, o)
  THEN IF supplier = "nil" THEN [Out(h) EXCEPT !.panic = "ErrNoValue"]
       ELSE [Out(h) EXCEPT !.panic = ApplyErr(supplier), !.nf = 1]
  ELSE Unwrap(h, o)

\* func (o *Optional[T]) UnwrapOr(supplier func() error) T
UnwrapOr(h, o, supplier) ==
  IF IsEmpty(h, o)
  THEN IF supplier = "nil" THEN [Out(h) EXCEPT !.panic = "ErrNoValue"]
       ELSE IF ApplyErr(supplier) # "nil"
            THEN [Out(h) EXCEPT !.panic = ApplyErr(supplier), !.nf = 1]
            ELSE [Out(h) EXCEPT !.panic = "ErrNoValue", !.nf = 1]
  ELSE Unwrap(h, o)

\* Mutant: Equals compares the payload slots whatever the presence flags say.
Equals_SlotsOnly(h, o, o2) ==
  IF o = NIL \/ o2 = NIL THEN [Out(h) EXCEPT !.b = (IsEmpty(h, o) /\ IsEmpty(h, o2))]
  ELSE [Out(h) EXCEPT !.b = DeepEqual(h[o].value, h[o2].value)]

\* func (o *Optional[T]) Equals(o2 *Optional[T]) bool
Equals(h, o, o2) ==
  IF ~IsPresent(h, o) /\ ~IsPresent(h, o2) THEN [Out(h) EXCEPT !.b = TRUE]
  ELSE IF IsPresent(h, o) /\ IsPresent(h, o2)
       THEN [Out(h) EXCEPT !.b = DeepEqual(Unwrap(h, o).val, Unwrap(h, o2).val)]
       ELSE [Out(h) EXCEPT !.b = FALSE]

\* func (o *Optional[T]) EqualsBy(o2 *Optional[T], predicate func(v1, v2 T) bool) bool
EqualsBy(h, o, o2, predicate) ==
  IF ~IsPresent(h, o) /\ ~IsPresent(h, o2) THEN [Out(h) EXCEPT !.b = TRUE]
  ELSE IF IsPresent(h, o) /\ IsPresent(h, o2)
       THEN IF predicate # "nil"
            THEN [Out(h) EXCEPT !.b = (predicate = "true"), !.nf = 1]
            ELSE [Out(h) EXCEPT !.b = DeepEqual(Unwrap(h, o).val, Unwrap(h, o2).val)]
       ELSE [Out(h) EXCEPT !.b = FALSE]

\* func (o *Optional[T]) Is(predicate func(T) bool) bool
Is(h, o, predicate) ==
  IF IsEmpty(h, o) \/ predicate = "nil" THEN [Out(h) EXCEPT !.b = FALSE]
  ELSE [Out(h) EXCEPT !.b = ApplyPred(predicate, Unwrap(h, o).val), !.nf = 1]

\* func (o *Optional[T]) Val() (T, error)
Val(h, o) ==
  IF IsPresent(h, o) THEN Unwrap(h, o)
  ELSE [Out(h) EXCEPT !.val = getZeroOfType(T), !.err = "ErrNoValue"]

\* Mutant: ValOr returns the given error as it is, nil included.
ValOr_NoDefault(h, o, err) ==
  IF IsPresent(h, o) THEN Unwrap(h, o)
  ELSE [Out(h) EXCEPT !.val = getZeroOfType(T), !.err = err]

\* func (o *Optional[T]) ValOr(err error) (T, error)
ValOr(h, o, err) ==
  IF IsPresent(h, o) THEN Unwrap(h, o)
  ELSE IF err = "nil" THEN [Out(h) EXCEPT !.val = getZeroOfType(T), !.err = "ErrNoValue"]
  ELSE [Out(h) EXCEPT !.val = getZeroOfType(T), !.err = err]

\* func (o *Optional[T]) ValOrElse(supplier func() error) (T, error)
ValOrElse(h, o, supplier) ==
  IF IsPresent(h, o) THEN Unwrap(h, o)
  ELSE IF supplier = "nil"
       THEN [Out(h) EXCEPT !.val = getZeroOfType(T), !.err = "ErrNoValue"]
  ELSE IF ApplyErr(supplier) # "nil"
       THEN [Out(h) EXCEPT !.val = getZeroOfType(T), !.err = ApplyErr(supplier), !.nf = 1]
  ELSE [Out(h) EXCEPT !.val = getZeroOfType(T), !.err = "ErrNoValue", !.nf = 1]

\* ------------------------------------------------------------------ pairs
\* func(X, Y) Z with X = Y = Z = T: nil, the first argument, the zero value.
Mappers2 == {"nil", "first", "zero"}
ApplyMap2(m, v1, v2) == IF m = "first" THEN v1 ELSE getZeroOfType(v1.kind)

\* Mutant: Zip puts o2's payload first.
Zip_Swapped(h, o1, o2) ==
  IF IsPresent(h, o1) /\ IsPresent(h, o2)
  THEN Of(h, PairPtr("pairTT", Unwrap(h, o2).val, Unwrap(h, o1).val))
  ELSE Empty(h, "pairTT")

\* func Zip[X, Y any](o1 *Optional[X], o2 *Optional[Y]) *Optional[*Pair[X, Y]]
Zip(h, o1, o2) ==
  IF IsPresent(h, o1) /\ IsPresent(h, o2)
  THEN Of(h, PairPtr("pairTT", Unwrap(h, o1).val, Unwrap(h, o2).val))
  ELSE Empty(h, "pairTT")

\* Mutant: Unzip returns the pair's Second before its First.
Unzip_Swapped(h, o) ==
  IF IsPresent(h, o)
  THEN LET pair == Unwrap(h, o).val.parts
       IN [Out(h) EXCEPT !.opt = pair[2].d, !.opt2 = pair[1].d]
  ELSE LET e1 == Empty(h, T)
           e2 == Empty(e1.heap, T)
       IN [e2 EXCEPT !.opt = e1.opt, !.opt2 = e2.opt]

\* func Unzip[X, Y any](o *Optional[*Pair[*Optional[X], *Optional[Y]]]) (*Optional[X], *Optional[Y])
Unzip(h, o) ==
  IF IsPresent(h, o)
  THEN LET pair == Unwrap(h, o).val.parts
       IN [Out(h) EXCEPT !.opt = pair[1].d, !.opt2 = pair[2].d]
  ELSE LET e1 == Empty(h, T)
           e2 == Empty(e1.heap, T)
       IN [e2 EXCEPT !.opt = e1.opt, !.opt2 = e2.opt]

\* func ZipWith[X, Y, Z any](o1 *Optional[X], o2 *Optional[Y], mapper func(X, Y) Z) *Optional[Z]
ZipWith(h, o1, o2, mapper) ==
  IF IsPresent(h, o1) /\ IsPresent(h, o2)
  THEN IF mapper = "nil" THEN Empty(h, T)
       ELSE [Of(h, ApplyMap2(mapper, Unwrap(h, o1).val, Unwrap(h, o2).val))
               EXCEPT !.nf = 1]
  ELSE Empty(h, T)

\* func Flatten[T any](o *Optional[*Optional[T]]) *Optional[T]
Flatten(h, o) ==
  IF IsPresent(h, o) THEN [Out(h) EXCEPT !.opt = Unwrap(h, o).val.d]
  ELSE Empty(h, T)

\* ------------------------------------------------------------------ JSON, String
\* The Go types behind the kinds, for encoding/json: int, string, bool,
\* struct{X int}, [1]int, *int, []int, map[string]int, chan int, func() and
\* interface{}; decoding a number into an interface{} yields a float64.
\* json.Marshal(value): the text, or the encoder's error.
Marshal(v) ==
  LET k == v.dyn
      n == ToString(v.d)
  IN IF k \in {"chan", "func"} THEN [err |-> "UnsupportedTypeError", text |-> ""]
     ELSE [err |-> "nil",
           text |-> CASE v.isNil -> "null"
                      [] k \in {"int", "ptr", "float64"} -> n
                      [] k = "string" -> IF v.d = 0 THEN "\"\"" ELSE "\"a\""
                      [] k = "bool" -> IF v.d = 0 THEN "false" ELSE "true"
                      [] k = "struct" -> "{\"X\":" \o n \o "}"
                      [] k = "array" -> "[" \o n \o "]"
                      [] k = "slice" -> IF v.d = 0 THEN "[]" ELSE "[" \o n \o "]"
                      [] k = "map" -> IF v.d = 0 THEN "{}" ELSE "{\"k\":" \o n \o "}"
                      [] OTHER -> "null"]

\* The values json.Unmarshal can leave in a T of kind K.
Decodable(K) ==
  IF K = "iface"
  THEN {V("iface", "float64", FALSE, x) : x \in Data}
  ELSE {v \in ValuesOf(K) : ~v.isNil /\ Marshal(v).err = "nil"}

\* A text that is no JSON.
BadJSON == "{"
\* A JSON text of another type than T's.
OtherJSON(K) == IF K = "bool" THEN "123" ELSE "true"

\* The JSON null with white space before it: not byte-equal to nilAsJSON,
\* and json.Unmarshal leaves a value of any type as it is on a null.
PaddedNull == " null"

\* var value T; err := json.Unmarshal(data, &value), for data that is not
\* the bytes `null`: the error and the value.
Unmarshal(K, data) ==
  LET hits == {v \in Decodable(K) : Marshal(v).text = data}
  IN IF data = BadJSON \/ data = ""
     THEN [err |-> "SyntaxError", value |-> getZeroOfType(K)]
     ELSE IF data = PaddedNull
     THEN [err |-> "nil", value |-> getZeroOfType(K)]
     ELSE IF hits = {}
     THEN [err |-> "UnmarshalTypeError", value |-> getZeroOfType(K)]
     ELSE [err |-> "nil", value |-> CHOOSE v \in hits : TRUE]

\* The byte slices the caller unmarshals into an Optional[T] of kind K.
JSONInputs(K) ==
  {"", "null", PaddedNull, BadJSON} \cup {Marshal(v).text : v \in Decodable(K)}
    \cup (IF K = "iface" THEN {} ELSE {OtherJSON(K)})

\* var nilAsJSON = []byte("null")
nilAsJSON == "null"

\* Mutant: MarshalJSON encodes the payload slot of every non-nil instance.
MarshalJSON_NoCheck(h, o) ==
  IF o = NIL THEN [Out(h) EXCEPT !.text = nilAsJSON]
  ELSE LET m == Marshal(h[o].value)
       IN [Out(h) EXCEPT !.text = m.text, !.err = m.err]

\* func (o *Optional[T]) MarshalJSON() ([]byte, error)
MarshalJSON(h, o) ==
  IF IsEmpty(h, o) THEN [Out(h) EXCEPT !.text = nilAsJSON]
  ELSE LET m == Marshal(Unwrap(h, o).val)
       IN [Out(h) EXCEPT !.text = m.text, !.err = m.err]

\* Mutant: UnmarshalJSON takes `null` and no data for nothing to do.
UnmarshalJSON_KeepOnNull(h, o, data) ==
  IF o = NIL THEN [Out(h) EXCEPT !.err = "ErrMutationOnNil"]
  ELSE IF data = "" \/ data = nilAsJSON THEN Out(h)
  ELSE LET u == Unmarshal(h[o].value.kind, data)
       IN IF u.err # "nil" THEN [Out(h) EXCEPT !.err = u.err]
          ELSE Out(setValue(h, o, u.value))

\* Mutant: UnmarshalJSON resets the instance when the decoder fails.
UnmarshalJSON_ResetOnError(h, o, data) ==
  IF o = NIL THEN [Out(h) EXCEPT !.err = "ErrMutationOnNil"]
  ELSE IF data = "" \/ data = nilAsJSON THEN Out(unsetValue(h, o))
  ELSE LET u == Unmarshal(h[o].value.kind, data)
       IN IF u.err # "nil" THEN [Out(unsetValue(h, o)) EXCEPT !.err = u.err]
          ELSE Out(setValue(h, o, u.value))

\* Mutant: UnmarshalJSON stores what it decoded without the validity check.
UnmarshalJSON_NoCheck(h, o, data) ==
  IF o = NIL THEN [Out(h) EXCEPT !.err = "ErrMutationOnNil"]
  ELSE IF data = "" \/ data = nilAsJSON THEN Out(unsetValue(h, o))
  ELSE LET u == Unmarshal(h[o].value.kind, data)
       IN IF u.err # "nil" THEN [Out(h) EXCEPT !.err = u.err]
          ELSE Out([h EXCEPT ![o] = Cell(u.value, TRUE)])

\* func (o *Optional[T]) UnmarshalJSON(data []byte) error
UnmarshalJSON(h, o, data) ==
  IF o = NIL THEN [Out(h) EXCEPT !.err = "ErrMutationOnNil"]
  ELSE IF data = "" \/ data = nilAsJSON THEN Out(unsetValue(h, o))
  ELSE LET u == Unmarshal(h[o].value.kind, data)
       IN IF u.err # "nil" THEN [Out(h) EXCEPT !.err = u.err]
          ELSE Out(setValue(h, o, u.value))

\* spew.Sprintf("%#+v", v): the type and the content.
Spew(v) == "(" \o v.dyn \o ")" \o ToString(v.d)

\* func (o *Optional[T]) String() string
String(h, o) ==
  IF IsEmpty(h, o) THEN [Out(h) EXCEPT !.text = "Optional.empty"]
  ELSE [Out(h) EXCEPT !.text = "Optional[" \o Spew(Unwrap(h, o).val) \o "]"]

\* ------------------------------------------------------------------ calls
\* The record of no call.
NoCall == [op |-> "none", self |-> NIL, o2 |-> NIL, v |-> NoVal,
           f |-> "nil", g |-> "nil"]

\* The caller is between two calls.
Idle == ret.call.op = "none"

\* No goroutine but the caller.
NoThreads == [locked |-> FALSE, mutex |-> 0, t |-> <<>>]

\* The state after construction: no instance yet, T fixed for the behaviour.
Init ==
  /\ T \in Kinds
  /\ heap = <<>>
  /\ pre = <<>>
  /\ ret = [call |-> NoCall, out |-> Out(<<>>)]
  /\ thr = NoThreads

\* One call by the caller: op applied to receiver self, Optional argument
\* o2, value argument v and callbacks f and g, with outcome out.
Call(op, self, o2, v, f, g, out) ==
  /\ Len(out.heap) <= MaxObjs
  /\ pre' = heap
  /\ heap' = out.heap
  /\ ret' = [call |-> [op |-> op, self |-> self, o2 |-> o2, v |-> v,
                       f |-> f, g |-> g],
             out |-> out]
  /\ UNCHANGED <<T, thr>>

\* The caller has used what the call returned (or recovered from its panic)
\* and goes on; it keeps the pointers.
Return ==
  /\ ret.call.op # "none"
  /\ ret' = [call |-> NoCall, out |-> Out(heap)]
  /\ pre' = heap
  /\ UNCHANGED <<T, heap, thr>>

CallEmpty ==
  /\ Idle
  /\ Call("Empty", NIL, NIL, NoVal, "nil", "nil", Empty(heap, T))

CallOf ==
  /\ Idle
  /\ \E v \in ValuesOf(T) : Call("Of", NIL, NIL, v, "nil", "nil", Of(heap, v))

CallUnwrap ==
  /\ Idle
  /\ \E o \in Ptrs(heap, T) : Call("Unwrap", o, NIL, NoVal, "nil", "nil", Unwrap(heap, o))

CallTake ==
  /\ Idle
  /\ \E o \in Ptrs(heap, T) : Call("Take", o, NIL, NoVal, "nil", "nil", Take(heap, o))

CallReplace ==
  /\ Idle
  /\ \E o \in Ptrs(heap, T), v \in ValuesOf(T) :
       Call("Replace", o, NIL, v, "nil", "nil", Replace(heap, o, v))

CallIsPresent ==
  /\ Idle
  /\ \E o \in Ptrs(heap, T) :
       Call("IsPresent", o, NIL, NoVal, "nil", "nil", [Out(heap) EXCEPT !.b = IsPresent(heap, o)])

CallIsEmpty ==
  /\ Idle
  /\ \E o \in Ptrs(heap, T) :
       Call("IsEmpty", o, NIL, NoVal, "nil", "nil", [Out(heap) EXCEPT !.b = IsEmpty(heap, o)])

CallIfPresent ==
  /\ Idle
  /\ \E o \in Ptrs(heap, T), f \in Actions :
       Call("IfPresent", o, NIL, NoVal, f, "nil", IfPresent(heap, o, f))

CallIfPresentOrElse ==
  /\ Idle
  /\ \E o \in Ptrs(heap, T), f \in Actions, g \in Actions :
       Call("IfPresentOrElse", o, NIL, NoVal, f, g, IfPresentOrElse(heap, o, f, g))

CallFilter ==
  /\ Idle
  /\ \E o \in Ptrs(heap, T), f \in Predicates :
       Call("Filter", o, NIL, NoVal, f, "nil", Filter(heap, o, f))

CallMap ==
  /\ Idle
  /\ \E o \in Ptrs(heap, T), f \in Mappers :
       Call("Map", o, NIL, NoVal, f, "nil", Map(heap, o, f))

CallMapOr ==
  /\ Idle
  /\ \E o \in Ptrs(heap, T), f \in Mappers, v \in ValuesOf(T) :
       Call("MapOr", o, NIL, v, f, "nil", MapOr(heap, o, f, v))

CallMapOrElse ==
  /\ Idle
  /\ \E o \in Ptrs(heap, T), f \in Mappers, g \in Suppliers :
       \E v \in IF g = "nil" THEN {NoVal} ELSE ValuesOf(T) :
         Call("MapOrElse", o, NIL, v, f, g, MapOrElse(heap, o, f, g, v))

CallFlatMap ==
  /\ Idle
  /\ \E o \in Ptrs(heap, T), f \in OptMappers :
       \E o2 \in IF f = "fn" THEN Ptrs(heap, T) ELSE {NIL} :
         Call("FlatMap", o, o2, NoVal, f, "nil", FlatMap(heap, o, f, o2))

CallAnd ==
  /\ Idle
  /\ \E o \in Ptrs(heap, T), f \in Suppliers :
       \E o2 \in IF f = "fn" THEN Ptrs(heap, T) ELSE {NIL} :
         Call("And", o, o2, NoVal, f, "nil", And(heap, o, f, o2))

CallOr ==
  /\ Idle
  /\ \E o \in Ptrs(heap, T), f \in Suppliers :
       \E o2 \in IF f = "fn" THEN Ptrs(heap, T) ELSE {NIL} :
         Call("Or", o, o2, NoVal, f, "nil", Or(heap, o, f, o2))

CallXor ==
  /\ Idle
  /\ \E o \in Ptrs(heap, T), o2 \in Ptrs(heap, T) :
       Call("Xor", o, o2, NoVal, "nil", "nil", Xor(heap, o, o2))

CallOrDefault ==
  /\ Idle
  /\ \E o \in Ptrs(heap, T) :
       Call("OrDefault", o, NIL, NoVal, "nil", "nil", OrDefault(heap, o))

CallOrElse ==
  /\ Idle
  /\ \E o \in Ptrs(heap, T), v \in ValuesOf(T) :
       Call("OrElse", o, NIL, v, "nil", "nil", OrElse(heap, o, v))

CallOrElseGet ==
  /\ Idle
  /\ \E o \in Ptrs(heap, T), f \in Suppliers :
       \E v \in IF f = "nil" THEN {NoVal} ELSE ValuesOf(T) :
         Call("OrElseGet", o, NIL, v, f, "nil", OrElseGet(heap, o, f, v))

CallUnwrapOr ==
  /\ Idle
  /\ \E o \in Ptrs(heap, T), f \in ErrSuppliers :
       Call("UnwrapOr", o, NIL, NoVal, f, "nil", UnwrapOr(heap, o, f))

CallEquals ==
  /\ Idle
  /\ \E o \in Ptrs(heap, T), o2 \in Ptrs(heap, T) :
       Call("Equals", o, o2, NoVal, "nil", "nil", Equals(heap, o, o2))

CallEqualsBy ==
  /\ Idle
  /\ \E o \in Ptrs(heap, T), o2 \in Ptrs(heap, T), f \in Predicates2 :
       Call("EqualsBy", o, o2, NoVal, f, "nil", EqualsBy(heap, o, o2, f))

CallIs ==
  /\ Idle
  /\ \E o \in Ptrs(heap, T), f \in Predicates :
       Call("Is", o, NIL, NoVal, f, "nil", Is(heap, o, f))

CallVal ==
  /\ Idle
  /\ \E o \in Ptrs(heap, T) : Call("Val", o, NIL, NoVal, "nil", "nil", Val(heap, o))

CallValOr ==
  /\ Idle
  /\ \E o \in Ptrs(heap, T), e \in {"nil", "callerErr"} :
       Call("ValOr", o, NIL, NoVal, e, "nil", ValOr(heap, o, e))

CallValOrElse ==
  /\ Idle
  /\ \E o \in Ptrs(heap, T), f \in ErrSuppliers :
       Call("ValOrElse", o, NIL, NoVal, f, "nil", ValOrElse(heap, o, f))

CallMarshalJSON ==
  /\ Idle
  /\ \E o \in Ptrs(heap, T) :
       Call("MarshalJSON", o, NIL, NoVal, "nil", "nil", MarshalJSON(heap, o))

CallUnmarshalJSON ==
  /\ Idle
  /\ \E o \in Ptrs(heap, T), data \in JSONInputs(T) :
       Call("UnmarshalJSON", o, NIL, NoVal, data, "nil", UnmarshalJSON(heap, o, data))

CallString ==
  /\ Idle
  /\ \E o \in Ptrs(heap, T) :
       Call("String", o, NIL, NoVal, "nil", "nil", String(heap, o))

CallZipWith ==
  /\ Idle
  /\ \E o \in Ptrs(heap, T), o2 \in Ptrs(heap, T), f \in Mappers2 :
       Call("ZipWith", o, o2, NoVal, f, "nil", ZipWith(heap, o, o2, f))

\* The caller builds nested instances over the kinds of NestedOver only, and
\* holds at most MaxNested of them.
MayNest ==
  /\ T \in NestedOver
  /\ Cardinality({a \in Addrs(heap) : heap[a].value.kind # T}) < MaxNested

CallZip ==
  /\ Idle
  /\ MayNest
  /\ \E o \in Ptrs(heap, T), o2 \in Ptrs(heap, T) :
       Call("Zip", o, o2, NoVal, "nil", "nil", Zip(heap, o, o2))

\* Of[*Optional[T]](p)
CallOfOpt ==
  /\ Idle
  /\ MayNest
  /\ \E p \in Ptrs(heap, T) :
       Call("OfOpt", NIL, p, NoVal, "nil", "nil", Of(heap, OptPtr(p)))

\* Of(&Pair[*Optional[T], *Optional[T]]{First: p1, Second: p2}), and Of of
\* the nil *Pair
CallOfPair ==
  /\ Idle
  /\ MayNest
  /\ \/ \E p1 \in Ptrs(heap, T), p2 \in Ptrs(heap, T) :
          Call("OfPair", p1, p2, NoVal, "nil", "nil",
               Of(heap, PairPtr("pairOO", OptPtr(p1), OptPtr(p2))))
     \/ Call("OfPair", NIL, NIL, NoVal, "nil", "nil",
             Of(heap, getZeroOfType("pairOO")))

CallFlatten ==
  /\ Idle
  /\ \E o \in Ptrs(heap, "optptr") :
       Call("Flatten", o, NIL, NoVal, "nil", "nil", Flatten(heap, o))

CallUnzip ==
  /\ Idle
  /\ \E o \in Ptrs(heap, "pairOO") :
       Call("Unzip", o, NIL, NoVal, "nil", "nil", Unzip(heap, o))

Next ==
  \/ CallEmpty
  \/ CallOf
  \/ CallIsPresent
  \/ CallIsEmpty
  \/ CallUnwrap
  \/ CallIfPresent
  \/ CallIfPresentOrElse
  \/ CallFilter
  \/ CallMap
  \/ CallMapOr
  \/ CallMapOrElse
  \/ CallFlatMap
  \/ CallAnd
  \/ CallOr
  \/ CallXor
  \/ CallOrDefault
  \/ CallOrElse
  \/ CallOrElseGet
  \/ CallUnwrapOr
  \/ CallEquals
  \/ CallEqualsBy
  \/ CallIs
  \/ CallVal
  \/ CallValOr
  \/ CallValOrElse
  \/ CallMarshalJSON
  \/ CallUnmarshalJSON
  \/ CallString
  \/ CallZipWith
  \/ CallTake
  \/ CallReplace
  \/ Return

\* The calls that build or take apart nested instances.
NextNested ==
  \/ CallZip
  \/ CallOfOpt
  \/ CallOfPair
  \/ CallFlatten
  \/ CallUnzip

NextAll == Next \/ NextNested

\* A caller of the methods and functions over Optional[T] alone.
Spec == Init /\ [][Next]_vars

\* A caller that also zips, unzips and flattens.
SpecAll == Init /\ [][NextAll]_vars

\* ------------------------------------------------------------------ concurrent Take
\* Two goroutines call o.Take() on the same present instance o.  Each runs
\* the statements of Take, and of the Unwrap, unsetValue and Of it calls,
\* one at a time; thr.t[i] is goroutine i: the statement it is at (pc), its
\* local v, the pointer it returns (opt) and what it panics with.  With
\* thr.locked the callers guard the instance by a mutex of their own
\* (thr.mutex is its holder, 0 when free); without it nothing orders the
\* statements of the two.
Threads == {1, 2}
\* The instance o the goroutines share: the first one allocated.
Shared == 1

\* The kinds whose values are wider than a machine word (a string's pointer
\* and length, a slice's header, an interface's type and data), and what a
\* read of such a value may see while another goroutine writes it.
MultiWord == {"string", "slice", "iface"}
Torn(K) == [V(K, K, FALSE, 0) EXCEPT !.dyn = "torn"]

\* o = Of(v) for a meaningful v, and two goroutines about to call o.Take(),
\* with or without a mutex.
InitTake ==
  /\ T \in Kinds
  /\ \E v \in {w \in ValuesOf(T) : isValueValid(w)} : heap = Of(<<>>, v).heap
  /\ pre = heap
  /\ ret = [call |-> NoCall, out |-> Out(<<>>)]
  /\ \E l \in BOOLEAN :
       thr = [locked |-> l, mutex |-> 0,
              t |-> [i \in Threads |->
                       [pc |-> "start", v |-> NoVal, opt |-> NIL, panic |-> "none"]]]

\* Goroutine i moves to statement pc.
At(i, pc) == thr.t[i].pc = pc
Goto(i, pc) == [thr EXCEPT !.t[i].pc = pc]

\* Goroutine i enters Take, after it got the mutex if the callers use one.
TakeBegin(i) ==
  /\ At(i, "start")
  /\ thr.locked => thr.mutex = 0
  /\ thr' = [Goto(i, "check") EXCEPT !.mutex = IF thr.locked THEN i ELSE 0]
  /\ UNCHANGED <<T, heap, pre, ret>>

\* if o.IsEmpty() { return o }
TakeCheck(i) ==
  /\ At(i, "check")
  /\ thr' = IF IsEmpty(heap, Shared)
            THEN [Goto(i, "return") EXCEPT !.t[i].opt = Shared]
            ELSE Goto(i, "unwrap")
  /\ UNCHANGED <<T, heap, pre, ret>>

\* v := o.Unwrap(): if o.IsEmpty() { panic(ErrNoValue) }
TakeUnwrap(i) ==
  /\ At(i, "unwrap")
  /\ thr' = IF IsEmpty(heap, Shared)
            THEN [Goto(i, "return") EXCEPT !.t[i].panic = "ErrNoValue"]
            ELSE Goto(i, "read")
  /\ UNCHANGED <<T, heap, pre, ret>>

\* Another goroutine is about to write o.value: its write and a read by i
\* are not ordered.
Racing(i) == \E j \in Threads \ {i} : At(j, "unsetValue")

\* v := o.Unwrap(): return o.value.  The read sees the slot as it is, or,
\* racing with the write of a value wider than a word, a torn one.
TakeRead(i) ==
  /\ At(i, "read")
  /\ \E v \in {heap[Shared].value}
               \cup (IF Racing(i) /\ T \in MultiWord THEN {Torn(T)} ELSE {}) :
       thr' = [Goto(i, "unsetValue") EXCEPT !.t[i].v = v]
  /\ UNCHANGED <<T, heap, pre, ret>>

\* o.unsetValue(): o.value = getZeroOfType[T]()
TakeUnsetValue(i) ==
  /\ At(i, "unsetValue")
  /\ heap' = [heap EXCEPT ![Shared].value = getZeroOfType(T)]
  /\ thr' = Goto(i, "unsetFlag")
  /\ UNCHANGED <<T, pre, ret>>

\* Mutant: unsetValue leaves the presence flag as it is.
TakeUnsetFlag_Skip(i) ==
  /\ At(i, "unsetFlag")
  /\ thr' = Goto(i, "of")
  /\ UNCHANGED <<T, heap, pre, ret>>

\* o.unsetValue(): o.isValueValid = false
TakeUnsetFlag(i) ==
  /\ At(i, "unsetFlag")
  /\ heap' = [heap EXCEPT ![Shared].isValueValid = FALSE]
  /\ thr' = Goto(i, "of")
  /\ UNCHANGED <<T, pre, ret>>

\* return Of(v)
TakeOf(i) ==
  /\ At(i, "of")
  /\ LET r == Of(heap, thr.t[i].v)
     IN /\ heap' = r.heap
        /\ thr' = [Goto(i, "return") EXCEPT !.t[i].opt = r.opt]
  /\ UNCHANGED <<T, pre, ret>>

\* Goroutine i leaves Take (returning or panicking) and gives the mutex back.
TakeEnd(i) ==
  /\ At(i, "return")
  /\ thr' = [Goto(i, "done") EXCEPT !.mutex = 0]
  /\ UNCHANGED <<T, heap, pre, ret>>

NextTake ==
  \E i \in Threads :
    \/ TakeBegin(i)
    \/ TakeCheck(i)
    \/ TakeUnwrap(i)
    \/ TakeRead(i)
    \/ TakeUnsetValue(i)
    \/ TakeUnsetFlag(i)
    \/ TakeOf(i)
    \/ TakeEnd(i)

\* Two goroutines that call Take on one present instance.
SpecTake == InitTake /\ [][NextTake]_vars

\* ------------------------------------------------------------------ claims
\* The meaningfulness rule as the specification words it: a value is not
\* meaningful iff it is of a nilable shape and its runtime value is nil.
NilableShapes == {"ptr", "iface", "slice", "map", "chan", "func"}
NilShaped(v) == v.kind \in NilableShapes /\ v.isNil

\* The state of an instance that holds v, and of an empty one of v's type.
Holding(v) == [value |-> v, isValueValid |-> TRUE]
EmptyOf(K) == [value |-> getZeroOfType(K), isValueValid |-> FALSE]

\* The last call was op, and it returned (did not panic).
Did(op) == ret.call.op = op
Returned == ret.out.panic = "none"
\* The instance the last call returned is one it allocated.
Fresh(a) == a \in Addrs(heap) \ Addrs(pre)
\* Every instance that existed before the last call is as it was.
Untouched == \A a \in Addrs(pre) : heap[a] = pre[a]

\* C1: Of(v) returns an empty Optional iff v is of a nilable shape and nil;
\* for every other v (zero-valued primitives, structs and arrays, empty but
\* non-nil slices and maps included) it is present and holds v; Of never
\* panics.
C1_OfMeaningful ==
  Did("Of") =>
    /\ Returned
    /\ Fresh(ret.out.opt)
    /\ IsEmpty(heap, ret.out.opt) <=> NilShaped(ret.call.v)
    /\ ~NilShaped(ret.call.v) => heap[ret.out.opt] = Holding(ret.call.v)

C1_Witness ==
  /\ Did("Of")
  /\ ret.call.v.kind = "slice"
  /\ ret.call.v.isNil
  /\ IsEmpty(heap, ret.out.opt)

\* C2: Unwrap returns the payload when the Optional is present and panics
\* with ErrNoValue when it is empty, however it became empty (Empty(),
\* Of(nil), Take); Of(v).Unwrap() = v for every meaningful v.
C2_Unwrap ==
  /\ Did("Unwrap") =>
       IF ret.call.self # NIL /\ pre[ret.call.self].isValueValid
       THEN Returned /\ ret.out.val = pre[ret.call.self].value
       ELSE ret.out.panic = "ErrNoValue"
  /\ Idle =>
       /\ \A v \in ValuesOf(T) :
            LET o == Of(heap, v)
                u == Unwrap(o.heap, o.opt)
            IN IF NilShaped(v) THEN u.panic = "ErrNoValue"
               ELSE u.panic = "none" /\ u.val = v
       /\ LET e == Empty(heap, T) IN Unwrap(e.heap, e.opt).panic = "ErrNoValue"
       /\ \A o \in Ptrs(heap, T) :
            LET t == Take(heap, o) IN Unwrap(t.heap, o).panic = "ErrNoValue"

C2_Witness ==
  /\ Did("Unwrap")
  /\ ret.call.self # NIL
  /\ ret.out.panic = "ErrNoValue"
  /\ \E o \in Addrs(heap) : heap[o].isValueValid

\* C3: Take on a present instance holding v leaves it empty and returns a
\* different, present Optional holding v; Take on an empty instance returns
\* an empty Optional and leaves the instance as it was.
C3_Take ==
  Did("Take") =>
    /\ Returned
    /\ IF ret.call.self # NIL /\ pre[ret.call.self].isValueValid
       THEN /\ heap[ret.call.self] = EmptyOf(T)
            /\ ret.out.opt # ret.call.self
            /\ Fresh(ret.out.opt)
            /\ heap[ret.out.opt] = Holding(pre[ret.call.self].value)
            /\ \A a \in Addrs(pre) \ {ret.call.self} : heap[a] = pre[a]
       ELSE /\ IsEmpty(heap, ret.out.opt)
            /\ heap = pre

C3_Witness ==
  /\ Did("Take")
  /\ ret.call.self # NIL
  /\ pre[ret.call.self].isValueValid
  /\ IsPresent(heap, ret.out.opt)

StateOf(v) == IF NilShaped(v) THEN EmptyOf(v.kind) ELSE Holding(v)

\* C5: after Replace(value) returns without error the receiver is a
\* non-empty Optional, for every value passed to Replace.
C5_ReplaceLeavesNonEmpty ==
  (Did("Replace") /\ Returned /\ ret.out.err = "nil") =>
    IsPresent(heap, ret.call.self)

\* The operations that are neither Take, Replace nor UnmarshalJSON.
NonMutating ==
  {"IsPresent", "IsEmpty", "Unwrap", "Filter", "Map", "MapOr", "MapOrElse",
   "FlatMap", "Flatten", "And", "Or", "Xor", "OrElse", "OrElseGet", "OrDefault",
   "UnwrapOr", "Equals", "EqualsBy", "Is", "Val", "ValOr", "ValOrElse", "Zip",
   "Unzip", "ZipWith", "MarshalJSON", "String", "IfPresent", "IfPresentOrElse"}

\* C6: every operation other than Take, Replace and UnmarshalJSON leaves the
\* presence flag and payload of its receiver and of every Optional argument
\* (of every instance there is) as they were, also when it panics.
C6_Frame == ret.call.op \in NonMutating => Untouched

C6_Witness ==
  /\ Did("Filter")
  /\ IsPresent(pre, ret.call.self)
  /\ ret.call.f = "false"
  /\ IsEmpty(heap, ret.out.opt)
  /\ IsPresent(heap, ret.call.self)

\* The operations C7 names, the pointers such a call returned, and the
\* pointers it was given: its receiver, its argument (or what its supplier
\* returns) and the pointers its receiver's payload holds.
C7_Ops == {"Filter", "And", "Or", "Xor", "Flatten", "Unzip"}
C7_Results == {ret.out.opt, ret.out.opt2} \ {NIL}
C7_Given ==
  LET o == ret.call.self
      held == IF o = NIL THEN {}
              ELSE IF heap[o].value.kind = "optptr" THEN {heap[o].value.d}
              ELSE IF heap[o].value.kind = "pairOO"
                   THEN {heap[o].value.parts[i].d : i \in DOMAIN heap[o].value.parts}
              ELSE {}
  IN ({o, ret.call.o2} \cup held) \ {NIL}
\* The heaps a later Take, Replace or UnmarshalJSON applied to r leaves.
C7_Mutations(r) ==
  {Take(heap, r).heap}
    \cup {Replace(heap, r, v).heap : v \in ValuesOf(T)}
    \cup {UnmarshalJSON(heap, r, data).heap : data \in JSONInputs(T)}

\* C7 as claimed: what such an operation returns is independent of its
\* receiver and arguments: no later Take, Replace or UnmarshalJSON applied to
\* r changes the presence or payload observed through o or o2.
C7_Independent ==
  ret.call.op \in C7_Ops =>
    \A r \in C7_Results : \A h \in C7_Mutations(r) :
      \A a \in C7_Given : h[a] = heap[a]

\* C7 as amended: such an operation returns a new instance only when it
\* returns an empty one, and that one is independent; otherwise it returns
\* one of the instances it was given (the receiver, the argument or the
\* supplier's instance, the instances the receiver's payload points to), and
\* a later Take, Replace or UnmarshalJSON applied to r changes r alone, so
\* what is observed through o or o2 changes only if r is that very instance;
\* Take applied to a present r that is o leaves o empty.
C7_Aliasing ==
  ret.call.op \in C7_Ops =>
    \A r \in C7_Results :
      /\ Fresh(r) \/ r \in C7_Given
      /\ Fresh(r) => IsEmpty(heap, r)
      /\ \A h \in C7_Mutations(r) : \A a \in Addrs(heap) \ {r} : h[a] = heap[a]
      /\ (r = ret.call.self /\ IsPresent(heap, r)) => IsEmpty(Take(heap, r).heap, ret.call.self)

C7_Witness ==
  /\ Did("Filter")
  /\ ret.out.opt = ret.call.self
  /\ IsPresent(heap, ret.call.self)
  /\ IsEmpty(Take(heap, ret.out.opt).heap, ret.call.self)

\* C8: o.Equals(o2) is true iff both are empty or both are present with
\* deeply-equal payloads, false when exactly one is present; an instance
\* emptied by Take and a nil *Optional both compare equal to Empty().
C8_Equals ==
  /\ Did("Equals") =>
       LET o == ret.call.self
           o2 == ret.call.o2
           p1 == o # NIL /\ pre[o].isValueValid
           p2 == o2 # NIL /\ pre[o2].isValueValid
       IN /\ Returned
          /\ ret.out.b <=> \/ ~p1 /\ ~p2
                           \/ p1 /\ p2 /\ DeepEqual(pre[o].value, pre[o2].value)
          /\ (p1 # p2) => ~ret.out.b
  /\ Idle =>
       LET e == Empty(heap, T)
       IN /\ Equals(e.heap, NIL, e.opt).b
          /\ Equals(e.heap, e.opt, NIL).b
          /\ \A o \in Ptrs(heap, T) :
               LET t == Take(e.heap, o).heap
               IN Equals(t, o, e.opt).b /\ Equals(t, e.opt, o).b

C8_Witness ==
  /\ Did("Equals")
  /\ IsPresent(pre, ret.call.self)
  /\ ret.call.o2 # NIL
  /\ IsEmpty(pre, ret.call.o2)
  /\ pre[ret.call.self].value = pre[ret.call.o2].value
  /\ ~ret.out.b

C10_MapFamily ==
  ret.call.op \in {"Map", "MapOr", "MapOrElse"} =>
    LET o == ret.call.self
    IN /\ Returned
       /\ Untouched
       /\ IF o # NIL /\ pre[o].isValueValid
          THEN ret.call.f # "nil" =>
                 /\ Fresh(ret.out.opt)
                 /\ heap[ret.out.opt] = StateOf(ApplyMap(ret.call.f, pre[o].value))
                 /\ ret.out.nf = 1
                 /\ ret.out.ng = 0
          ELSE /\ ret.out.nf = 0
               /\ Did("Map") => Fresh(ret.out.opt) /\ heap[ret.out.opt] = EmptyOf(T)
               /\ Did("MapOr") =>
                    Fresh(ret.out.opt) /\ heap[ret.out.opt] = StateOf(ret.call.v)
               /\ (Did("MapOrElse") /\ ret.call.g # "nil") =>
                    /\ Fresh(ret.out.opt)
                    /\ heap[ret.out.opt] = StateOf(ret.call.v)
                    /\ ret.out.ng = 1

C10_Witness ==
  /\ Did("Map")
  /\ IsPresent(pre, ret.call.self)
  /\ ret.call.f = "zero"
  /\ T = "slice"
  /\ IsEmpty(heap, ret.out.opt)

\* C11: FlatMap with a non-nil mapper returns an empty Optional without
\* invoking the mapper when input is empty, and otherwise exactly the
\* Optional the mapper produced for the payload (the very pointer, nothing
\* wrapped anew, no validity check); Flatten(o) returns the inner Optional
\* when o is present and an empty Optional otherwise.
C11_FlatMapFlatten ==
  /\ (Did("FlatMap") /\ ret.call.f # "nil") =>
       LET o == ret.call.self
       IN /\ Returned
          /\ Untouched
          /\ IF o = NIL \/ ~pre[o].isValueValid
             THEN /\ ret.out.nf = 0
                  /\ Fresh(ret.out.opt)
                  /\ heap[ret.out.opt] = EmptyOf(T)
             ELSE /\ ret.out.nf = 1
                  /\ ret.call.f = "fn" => ret.out.opt = ret.call.o2 /\ heap = pre
                  /\ ret.call.f = "of" =>
                       Fresh(ret.out.opt) /\ heap[ret.out.opt] = StateOf(pre[o].value)
  /\ Did("Flatten") =>
       LET o == ret.call.self
       IN /\ Returned
          /\ Untouched
          /\ IF o # NIL /\ pre[o].isValueValid
             THEN ret.out.opt = pre[o].value.d /\ ret.out.opt # NIL /\ heap = pre
             ELSE Fresh(ret.out.opt) /\ heap[ret.out.opt] = EmptyOf(T)

C11_Witness ==
  /\ Did("FlatMap")
  /\ ret.call.f = "fn"
  /\ IsPresent(pre, ret.call.self)
  /\ ret.call.o2 # NIL
  /\ IsPresent(pre, ret.call.o2)
  /\ ret.out.opt = ret.call.o2
  /\ \E a \in Addrs(heap) : heap[a].value.kind = "optptr" /\ heap[a].isValueValid

\* C12: And and Or short-circuit.  With a non-nil supplier, o.And(supplier)
\* returns o without invoking the supplier when o is empty and the
\* supplier's Optional when o is present; o.Or(supplier) returns o without
\* invoking the supplier when o is present and the supplier's Optional when
\* o is empty.
C12_AndOr ==
  (ret.call.op \in {"And", "Or"} /\ ret.call.f # "nil") =>
    LET o == ret.call.self
        present == o # NIL /\ pre[o].isValueValid
        keeps == IF Did("And") THEN ~present ELSE present
    IN /\ Returned
       /\ heap = pre
       /\ IF keeps
          THEN ret.out.opt = o /\ ret.out.nf = 0
          ELSE ret.out.opt = ret.call.o2 /\ ret.out.nf = 1

C12_Witness ==
  /\ Did("And")
  /\ ret.call.f = "fn"
  /\ ret.call.self # NIL
  /\ IsEmpty(pre, ret.call.self)
  /\ IsPresent(pre, ret.call.o2)
  /\ ret.out.opt = ret.call.self
  /\ ret.out.nf = 0

\* C13: Xor follows the exclusive-or truth table on presence: it is empty
\* for two empty and for two present Optionals, holds a for (Of(a), Empty)
\* and b for (Empty, Of(b)); a nil *Optional (argument or receiver) counts
\* as empty and causes no panic.
C13_Xor ==
  Did("Xor") =>
    LET o == ret.call.self
        o2 == ret.call.o2
        p1 == o # NIL /\ pre[o].isValueValid
        p2 == o2 # NIL /\ pre[o2].isValueValid
    IN /\ Returned
       /\ Untouched
       /\ ret.out.opt # NIL
       /\ IF p1 = p2 THEN heap[ret.out.opt] = EmptyOf(T)
          ELSE IF p1 THEN heap[ret.out.opt] = Holding(pre[o].value)
          ELSE heap[ret.out.opt] = Holding(pre[o2].value)

C13_Witness ==
  /\ Did("Xor")
  /\ IsPresent(pre, ret.call.self)
  /\ IsPresent(pre, ret.call.o2)
  /\ ret.call.self # ret.call.o2
  /\ IsEmpty(heap, ret.out.opt)

\* C14: OrElse(fallback), OrElseGet(supplier) and OrDefault() return the
\* payload when the Optional is present; when it is empty they return
\* fallback, supplier() and the zero value of T; OrElseGet invokes its
\* supplier only when the Optional is empty.
C14_OrElseFamily ==
  ret.call.op \in {"OrElse", "OrElseGet", "OrDefault"} =>
    LET o == ret.call.self
    IN /\ Returned
       /\ heap = pre
       /\ IF o # NIL /\ pre[o].isValueValid
          THEN ret.out.val = pre[o].value /\ ret.out.nf = 0
          ELSE /\ Did("OrElse") => ret.out.val = ret.call.v
               /\ (Did("OrElseGet") /\ ret.call.f # "nil") =>
                    ret.out.val = ret.call.v /\ ret.out.nf = 1
               /\ Did("OrDefault") => ret.out.val = getZeroOfType(T)

C14_Witness ==
  /\ Did("OrElseGet")
  /\ ret.call.f = "fn"
  /\ IsPresent(pre, ret.call.self)
  /\ ret.call.v # pre[ret.call.self].value
  /\ ret.out.val = pre[ret.call.self].value
  /\ ret.out.nf = 0

\* C15: UnwrapOr(supplier) returns the payload without invoking the
\* supplier when the Optional is present; when it is empty it panics with
\* the supplier's error if that is non-nil, and with ErrNoValue if the
\* supplier is nil or returns a nil error.
C15_UnwrapOr ==
  Did("UnwrapOr") =>
    LET o == ret.call.self
        f == ret.call.f
    IN /\ heap = pre
       /\ IF o # NIL /\ pre[o].isValueValid
          THEN Returned /\ ret.out.val = pre[o].value /\ ret.out.nf = 0
          ELSE /\ ret.out.val = NoVal
               /\ f = "retErr" => ret.out.panic = "callerErr"
               /\ f \in {"nil", "retNil"} => ret.out.panic = "ErrNoValue"

C15_Witness ==
  /\ Did("UnwrapOr")
  /\ ret.call.f = "retNil"
  /\ ret.call.self # NIL
  /\ IsEmpty(pre, ret.call.self)
  /\ ret.out.panic = "ErrNoValue"
  /\ ret.out.nf = 1

\* C16: Val, ValOr and ValOrElse never panic.  On a present Optional they
\* return (payload, nil) and ValOrElse does not invoke its supplier; on an
\* empty one they return the zero value of T with ErrNoValue (Val), with
\* the given error or ErrNoValue when it is nil (ValOr), with the supplier's
\* error or ErrNoValue when the supplier is nil or returns nil (ValOrElse).
C16_ValFamily ==
  ret.call.op \in {"Val", "ValOr", "ValOrElse"} =>
    LET o == ret.call.self
        f == ret.call.f
    IN /\ Returned
       /\ heap = pre
       /\ IF o # NIL /\ pre[o].isValueValid
          THEN ret.out.val = pre[o].value /\ ret.out.err = "nil" /\ ret.out.nf = 0
          ELSE /\ ret.out.val = getZeroOfType(T)
               /\ Did("Val") => ret.out.err = "ErrNoValue"
               /\ Did("ValOr") =>
                    ret.out.err = IF f = "nil" THEN "ErrNoValue" ELSE f
               /\ Did("ValOrElse") =>
                    ret.out.err = IF f = "retErr" THEN "callerErr" ELSE "ErrNoValue"

C16_Witness ==
  /\ Did("ValOr")
  /\ ret.call.f = "nil"
  /\ ret.call.self # NIL
  /\ IsEmpty(pre, ret.call.self)
  /\ ret.out.err = "ErrNoValue"
  /\ ret.out.val = getZeroOfType(T)

\* C17: Zip(o1, o2) and ZipWith(o1, o2, mapper) return an empty Optional
\* whenever at least one input is empty, and ZipWith then does not invoke
\* mapper; when both are present Zip returns a present Optional whose pair
\* has First = o1's payload and Second = o2's payload, and ZipWith with a
\* non-nil mapper returns Of(mapper(a, b)), empty when that is nil-shaped.
C17_Zip ==
  ret.call.op \in {"Zip", "ZipWith"} =>
    LET o1 == ret.call.self
        o2 == ret.call.o2
        both == o1 # NIL /\ o2 # NIL /\ pre[o1].isValueValid /\ pre[o2].isValueValid
        r == ret.out.opt
    IN /\ Returned
       /\ Untouched
       /\ Fresh(r)
       /\ IF ~both
          THEN /\ ~heap[r].isValueValid
               /\ ret.out.nf = 0
               /\ Did("ZipWith") => heap[r] = EmptyOf(T)
               /\ Did("Zip") => heap[r] = EmptyOf("pairTT")
          ELSE /\ Did("Zip") =>
                    /\ heap[r].isValueValid
                    /\ ~heap[r].value.isNil
                    /\ heap[r].value.parts = <<pre[o1].value, pre[o2].value>>
               /\ (Did("ZipWith") /\ ret.call.f # "nil") =>
                    /\ ret.out.nf = 1
                    /\ heap[r] = StateOf(ApplyMap2(ret.call.f, pre[o1].value, pre[o2].value))

C17_Witness ==
  /\ Did("Zip")
  /\ IsPresent(pre, ret.call.self)
  /\ IsPresent(pre, ret.call.o2)
  /\ pre[ret.call.self].value # pre[ret.call.o2].value
  /\ IsPresent(heap, ret.out.opt)
  /\ heap[ret.out.opt].value.parts[1] = pre[ret.call.self].value

\* C18: Unzip(o) returns the pair's First and Second Optionals unchanged
\* when o is present (each may be present or empty on its own), and two
\* empty Optionals when o is empty; Unzip(Of(Pair{Of(a), Of(b)})) yields
\* (Of(a), Of(b)).
C18_Unzip ==
  /\ Did("Unzip") =>
       LET o == ret.call.self
       IN /\ Returned
          /\ Untouched
          /\ IF o # NIL /\ pre[o].isValueValid
             THEN /\ ret.out.opt = pre[o].value.parts[1].d
                  /\ ret.out.opt2 = pre[o].value.parts[2].d
                  /\ heap = pre
             ELSE /\ Fresh(ret.out.opt)
                  /\ Fresh(ret.out.opt2)
                  /\ ret.out.opt # ret.out.opt2
                  /\ heap[ret.out.opt] = EmptyOf(T)
                  /\ heap[ret.out.opt2] = EmptyOf(T)
  /\ (Idle /\ T \in NestedOver) =>
       \A a \in ValuesOf(T), b \in ValuesOf(T) :
         LET x == Of(heap, a)
             y == Of(x.heap, b)
             p == Of(y.heap, PairPtr("pairOO", OptPtr(x.opt), OptPtr(y.opt)))
             u == Unzip(p.heap, p.opt)
         IN /\ u.opt = x.opt
            /\ u.opt2 = y.opt
            /\ u.heap[u.opt] = Holding(a)
            /\ u.heap[u.opt2] = Holding(b)

C18_Witness ==
  /\ Did("Unzip")
  /\ IsPresent(pre, ret.call.self)
  /\ ret.out.opt # ret.out.opt2
  /\ IsPresent(heap, ret.out.opt)
  /\ ret.out.opt2 # NIL
  /\ IsEmpty(heap, ret.out.opt2)

\* C19: MarshalJSON returns the bytes `null` with a nil error for every
\* empty Optional (a nil *Optional and an instance emptied by Take
\* included); for a present one it returns exactly the JSON encoding of the
\* payload, and no error but the encoder's own.
C19_MarshalJSON ==
  /\ Did("MarshalJSON") =>
       LET o == ret.call.self
       IN /\ Returned
          /\ heap = pre
          /\ IF o # NIL /\ pre[o].isValueValid
             THEN /\ ret.out.text = Marshal(pre[o].value).text
                  /\ ret.out.err = Marshal(pre[o].value).err
             ELSE ret.out.text = "null" /\ ret.out.err = "nil"
  /\ Idle =>
       \A o \in Ptrs(heap, T) :
         LET m == MarshalJSON(Take(heap, o).heap, o)
         IN m.text = "null" /\ m.err = "nil"

C19_Witness ==
  /\ Did("MarshalJSON")
  /\ ret.call.self # NIL
  /\ IsEmpty(pre, ret.call.self)
  /\ T = "int"
  /\ ret.out.text = "null"
  /\ \E a \in Addrs(heap) : heap[a].isValueValid /\ heap[a].value.d = 123

\* C20: UnmarshalJSON on a non-nil instance in any prior state: if data is
\* zero-length or exactly `null` the instance becomes empty and nil is
\* returned; if data decodes into T the instance takes the state of
\* Of(decoded value) (present unless that value is nil-shaped) and nil is
\* returned.  No other instance changes.
C20_UnmarshalJSON ==
  (Did("UnmarshalJSON") /\ ret.call.self # NIL) =>
    LET o == ret.call.self
        data == ret.call.f
        u == Unmarshal(T, data)
    IN /\ Returned
       /\ Len(heap) = Len(pre)
       /\ \A a \in Addrs(pre) \ {o} : heap[a] = pre[a]
       /\ data \in {"", "null"} => heap[o] = EmptyOf(T) /\ ret.out.err = "nil"
       /\ (data \notin {"", "null"} /\ u.err = "nil") =>
            heap[o] = StateOf(u.value) /\ ret.out.err = "nil"
       /\ \A v \in Decodable(T) :
            data = Marshal(v).text => heap[o] = Holding(v) /\ ret.out.err = "nil"

C20_Witness ==
  /\ Did("UnmarshalJSON")
  /\ T = "ptr"
  /\ ret.call.f = PaddedNull
  /\ IsPresent(pre, ret.call.self)
  /\ IsEmpty(heap, ret.call.self)
  /\ ret.out.err = "nil"

\* C21: when UnmarshalJSON is given data that is neither empty nor `null`
\* and does not decode into T, it returns the decoder's error as it is and
\* leaves the instance's presence flag and payload as they were, whether
\* the instance was present or empty.
C21_UnmarshalFailure ==
  (Did("UnmarshalJSON") /\ ret.call.self # NIL) =>
    LET data == ret.call.f
        u == Unmarshal(T, data)
    IN /\ (data \notin {"", "null"} /\ u.err # "nil") =>
            Returned /\ ret.out.err = u.err /\ heap = pre
       /\ data = BadJSON => ret.out.err = "SyntaxError" /\ heap = pre
       /\ (T # "iface" /\ data = OtherJSON(T)) =>
            ret.out.err = "UnmarshalTypeError" /\ heap = pre

C21_Witness ==
  /\ Did("UnmarshalJSON")
  /\ ret.call.f = BadJSON
  /\ IsPresent(pre, ret.call.self)
  /\ IsPresent(heap, ret.call.self)
  /\ ret.out.err = "SyntaxError"

\* The payload v is JSON-serializable, and encoding/json decodes its
\* encoding, which is not `null`, into a T that is deeply equal to v.
C22_Faithful(v) ==
  LET m == Marshal(v)
  IN /\ m.err = "nil"
     /\ m.text # "null"
     /\ Unmarshal(T, m.text).err = "nil"
     /\ DeepEqual(Unmarshal(T, m.text).value, v)

\* The instance t after UnmarshalJSON of what o.MarshalJSON() returned
\* Equals o.
C22_ComesBack(o, t) ==
  LET m == MarshalJSON(heap, o)
      u == UnmarshalJSON(heap, t, m.text)
  IN u.err = "nil" /\ Equals(u.heap, t, o).b

C23_Missing ==
  LET present == ret.call.self # NIL /\ pre[ret.call.self].isValueValid
  IN \/ Did("Or") /\ ~present /\ ret.call.f = "nil"
     \/ Did("And") /\ present /\ ret.call.f = "nil"
     \/ Did("OrElseGet") /\ ~present /\ ret.call.f = "nil"
     \/ Did("MapOrElse") /\ ~present /\ ret.call.g = "nil"

\* C23 as claimed: when a supplier is structurally required and is nil the
\* operation raises a failure (panics) instead of returning a value.
C23_NilSupplierPanics == C23_Missing => ~Returned

\* C23 as amended: such a call returns, without a panic and without
\* invoking anything: Or returns the receiver, And a new empty Optional,
\* OrElseGet the zero value of T and MapOrElse a new empty Optional.
C23_NilSupplierReturns ==
  C23_Missing =>
    /\ Returned
    /\ Untouched
    /\ ret.out.nf = 0 /\ ret.out.ng = 0
    /\ Did("Or") => ret.out.opt = ret.call.self /\ heap = pre
    /\ Did("OrElseGet") => ret.out.val = getZeroOfType(T) /\ heap = pre
    /\ ret.call.op \in {"And", "MapOrElse"} =>
         Fresh(ret.out.opt) /\ heap[ret.out.opt] = EmptyOf(T)

C23_Witness ==
  /\ Did("Or")
  /\ ret.call.f = "nil"
  /\ ret.call.self # NIL
  /\ IsEmpty(pre, ret.call.self)
  /\ ret.out.opt = ret.call.self
  /\ Returned

\* C24: a nil callback is never invoked and never causes a panic.  On a
\* present input, Filter, Map, MapOr, MapOrElse, FlatMap, And and ZipWith
\* given a nil predicate, mapper or supplier return an empty Optional, never
\* the receiver, and Is returns false; on an empty input, Or with a nil
\* supplier returns the receiver, MapOrElse with a nil supplier an empty
\* Optional and OrElseGet with a nil supplier the zero value of T.
C24_NilCallbacks ==
  LET o == ret.call.self
      o2 == ret.call.o2
      present == o # NIL /\ pre[o].isValueValid
      present2 == o2 # NIL /\ pre[o2].isValueValid
      r == ret.out.opt
      newEmpty == /\ Fresh(r)
                  /\ heap[r] = EmptyOf(T)
                  /\ r # o
                  /\ Untouched
                  /\ ret.out.nf = 0
  IN /\ (ret.call.f = "nil" /\ present
           /\ ret.call.op \in {"Filter", "Map", "MapOr", "MapOrElse", "FlatMap", "And"}) =>
          Returned /\ newEmpty /\ ret.out.ng = 0
     /\ (Did("ZipWith") /\ ret.call.f = "nil" /\ present /\ present2) =>
          Returned /\ newEmpty /\ r # o2
     /\ (Did("Is") /\ ret.call.f = "nil" /\ present) =>
          Returned /\ ~ret.out.b /\ ret.out.nf = 0 /\ heap = pre
     /\ (Did("Or") /\ ret.call.f = "nil" /\ ~present) =>
          Returned /\ r = o /\ ret.out.nf = 0 /\ heap = pre
     /\ (Did("MapOrElse") /\ ret.call.g = "nil" /\ ~present) =>
          Returned /\ newEmpty /\ ret.out.ng = 0
     /\ (Did("OrElseGet") /\ ret.call.f = "nil" /\ ~present) =>
          Returned /\ ret.out.val = getZeroOfType(T) /\ ret.out.nf = 0 /\ heap = pre

C24_Witness ==
  /\ Did("Filter")
  /\ ret.call.f = "nil"
  /\ IsPresent(pre, ret.call.self)
  /\ ret.out.opt # ret.call.self
  /\ IsEmpty(heap, ret.out.opt)
  /\ IsPresent(heap, ret.call.self)

\* C25: with callbacks that do not panic, the only operations that ever
\* panic are Unwrap on an empty Optional (with ErrNoValue) and UnwrapOr on
\* an empty Optional (with the supplier's error or ErrNoValue); every other
\* call returns, for present, empty and nil receivers and arguments, and the
\* empty ones include the nil *Optional.
C25_OnlyUnwrapPanics ==
  LET o == ret.call.self
      empty == o = NIL \/ ~pre[o].isValueValid
  IN /\ ~Returned =>
          /\ ret.call.op \in {"Unwrap", "UnwrapOr"}
          /\ empty
          /\ Did("Unwrap") => ret.out.panic = "ErrNoValue"
          /\ Did("UnwrapOr") => ret.out.panic \in {"ErrNoValue", "callerErr"}
          /\ heap = pre
     /\ (ret.call.op \in {"Unwrap", "UnwrapOr"} /\ empty) => ~Returned

C25_Witness ==
  /\ Did("Xor")
  /\ ret.call.self = NIL
  /\ IsPresent(pre, ret.call.o2)
  /\ Returned
  /\ ret.out.opt = ret.call.o2

\* C26: Replace and UnmarshalJSON invoked on a nil *Optional return
\* ErrMutationOnNil (Replace also a nil Optional), change nothing and do not
\* panic, whatever the argument.
C26_MutationOnNil ==
  (ret.call.op \in {"Replace", "UnmarshalJSON"} /\ ret.call.self = NIL) =>
    /\ Returned
    /\ ret.out.err = "ErrMutationOnNil"
    /\ ret.out.opt = NIL
    /\ heap = pre

C26_Witness ==
  /\ Did("Replace")
  /\ ret.call.self = NIL
  /\ ~NilShaped(ret.call.v)
  /\ ret.out.err = "ErrMutationOnNil"
  /\ \E a \in Addrs(heap) : heap[a].isValueValid

C28_Funs == {[m |-> "of", p |-> NIL]} \cup {[m |-> "fn", p |-> q] : q \in Ptrs(heap, T)}

\* FlatMap(FlatMap(Of(v), f), g), evaluated on heap h.
C28_Left(h, v, f, g) ==
  LET a == Of(h, v)
      b == FlatMap(a.heap, a.opt, f.m, f.p)
  IN IF b.panic # "none" THEN b ELSE FlatMap(b.heap, b.opt, g.m, g.p)

\* FlatMap(Of(v), x -> FlatMap(f(x), g)), evaluated on heap h: the mapper
\* is run on v, and FlatMap is given the function that returns its result.
C28_Right(h, v, f, g) ==
  LET a == Of(h, v)
      fx == IF f.m = "of" THEN Of(a.heap, v) ELSE [Out(a.heap) EXCEPT !.opt = f.p]
      inner == FlatMap(fx.heap, fx.opt, g.m, g.p)
  IN IF inner.panic # "none" THEN inner
     ELSE FlatMap(inner.heap, a.opt, "fn", inner.opt)

\* C28 as claimed: FlatMap is associative: for every meaningful v and all
\* deterministic f and g returning Optionals, FlatMap(FlatMap(Of(v), f), g)
\* equals, by Equals, FlatMap(Of(v), x -> FlatMap(f(x), g)), also when f or
\* g return empty.
C28_Associative ==
  Idle =>
    \A v \in {w \in ValuesOf(T) : ~NilShaped(w)} : \A f \in C28_Funs, g \in C28_Funs :
      LET l == C28_Left(heap, v, f, g)
          r == C28_Right(l.heap, v, f, g)
      IN /\ l.panic = "none"
         /\ r.panic = "none"
         /\ Equals(r.heap, l.opt, r.opt).b

\* C28 as amended: the two sides are both empty, or both present with the
\* same payload; they are equal by Equals unless that payload is not deeply
\* equal to itself, as a non-nil function is, of which Equals is false.
C28_AssociativeUpToDeepEqual ==
  Idle =>
    \A v \in {w \in ValuesOf(T) : ~NilShaped(w)} : \A f \in C28_Funs, g \in C28_Funs :
      LET l == C28_Left(heap, v, f, g)
          r == C28_Right(l.heap, v, f, g)
          h == r.heap
      IN /\ l.panic = "none"
         /\ r.panic = "none"
         /\ IsPresent(h, l.opt) = IsPresent(h, r.opt)
         /\ IsPresent(h, l.opt) => h[l.opt].value = h[r.opt].value
         /\ Equals(h, l.opt, r.opt).b =
              (IsEmpty(h, l.opt) \/ DeepEqual(h[l.opt].value, h[l.opt].value))
         /\ T # "func" => Equals(h, l.opt, r.opt).b

C28_Witness ==
  /\ Idle
  /\ T = "int"
  /\ \E q \in Addrs(heap) :
       LET v == V("int", "int", FALSE, 0)
           f == [m |-> "of", p |-> NIL]
           g == [m |-> "fn", p |-> q]
           l == C28_Left(heap, v, f, g)
           r == C28_Right(l.heap, v, f, g)
       IN /\ IsPresent(heap, q)
          /\ heap[q].value.d = 123
          /\ l.opt = q
          /\ r.opt = q
          /\ Equals(r.heap, l.opt, r.opt).b

\* The combinators that take callbacks.
C29_Combinators ==
  {"Filter", "Map", "MapOr", "MapOrElse", "FlatMap", "And", "Or", "OrElseGet",
   "UnwrapOr", "ValOrElse", "ZipWith", "Is", "EqualsBy", "IfPresent",
   "IfPresentOrElse"}

\* C29: within one invocation of a combinator each supplied callback is
\* invoked at most once, and MapOrElse and IfPresentOrElse never invoke both
\* of theirs: the mapper or action runs only when the Optional is present,
\* the supplier or emptyAction only when it is empty.
C29_CallbacksAtMostOnce ==
  ret.call.op \in C29_Combinators =>
    LET present == ret.call.self # NIL /\ pre[ret.call.self].isValueValid
    IN /\ ret.out.nf \in {0, 1}
       /\ ret.out.ng \in {0, 1}
       /\ ret.call.f = "nil" => ret.out.nf = 0
       /\ ret.call.g = "nil" => ret.out.ng = 0
       /\ ret.call.op \in {"MapOrElse", "IfPresentOrElse"} =>
            /\ ret.out.nf + ret.out.ng <= 1
            /\ ret.out.nf = 1 => present
            /\ ret.out.ng = 1 => ~present

C29_Witness ==
  /\ Did("IfPresentOrElse")
  /\ ret.call.f = "fn"
  /\ ret.call.g = "fn"
  /\ IsPresent(pre, ret.call.self)
  /\ ret.out.nf = 1
  /\ ret.out.ng = 0

\* Goroutine i returned a present Optional that holds the payload o had.
C30_Handed(i) ==
  /\ thr.t[i].panic = "none"
  /\ IsPresent(heap, thr.t[i].opt)
  /\ heap[thr.t[i].opt].value = pre[Shared].value
C30_Done == \A i \in Threads : At(i, "done")

\* C30: Take is not atomic.  Of two goroutines that call Take on the same
\* present instance, serialized by a mutex of the callers exactly one
\* returns a present Optional (holding the payload; the other returns the
\* emptied receiver); without synchronization at least one returns the
\* payload, and there is an interleaving in which both do: the value is
\* handed out twice (the state C30_Witness).
C30_TakeRace ==
  C30_Done =>
    /\ IsEmpty(heap, Shared)
    /\ Cardinality({i \in Threads : C30_Handed(i)}) >= 1
    /\ thr.locked =>
         /\ Cardinality({i \in Threads : C30_Handed(i)}) = 1
         /\ Cardinality({i \in Threads : IsPresent(heap, thr.t[i].opt)}) = 1
         /\ \A i \in Threads :
              /\ thr.t[i].panic = "none"
              /\ ~C30_Handed(i) => thr.t[i].opt = Shared

C30_Witness ==
  /\ C30_Done
  /\ ~thr.locked
  /\ \A i \in Threads : C30_Handed(i)
  /\ thr.t[1].opt # thr.t[2].opt

====
